---- MODULE Spec2Model ----
(***************************************************************************)
(* Vidio: a Video reader, a VideoWriter and their signal watchers, driven  *)
(* by one caller goroutine, with the ffmpeg engine as the environment.     *)
(*                                                                         *)
(* Bytes are naturals.  The engine's decoded stream carries the value i at *)
(* stream offset i (1-based), so frame k (0-based) is the FrameSize values *)
(* k*FrameSize+1 .. (k+1)*FrameSize; 0 is the zero byte of a fresh buffer. *)
(* A nil slice and an empty slice are both the empty sequence <<>>.        *)
(***************************************************************************)
EXTENDS Integers, Sequences, FiniteSets, TLC

VARIABLES
    video,      \* the Video struct (video.go:14-33)
    vwatch,     \* the goroutine started by Video.cleanup and its channel c
    stdout,     \* the sequential engine's standard output: bytes emitted, read offset
    writer,     \* the VideoWriter struct (videowriter.go:14-28)
    wwatch,     \* the goroutine started by VideoWriter.cleanup and its channel c
    stdin,      \* number of bytes the encode engine has received
    oneshot,    \* what the random-access calls have left behind
    prog,       \* the program: "running", or how it ended or got stuck
    sig,        \* number of interrupt/terminate signals delivered so far
    ret,        \* the last call of the caller and what it returned
    calls,      \* how many calls of each kind the caller has made
    host,       \* the machine: which files exist, which tools run, what a probe yields
    given,      \* the arguments of the last constructor or one-shot call
    encoder,    \* the encode invocation VideoWriter.init built, and the engine's exit
    parsed,     \* the last call of a parsing function: its text and its result
    collect,    \* the loop that collects a tool's output: buffer, bytes read, bytes to come
    camera      \* the Camera struct (camera.go:14-23), its Read loop and its capture stream

vars == <<video, vwatch, stdout, writer, wwatch, stdin, oneshot, prog, sig, ret, calls,
          host, given, encoder, parsed, collect, camera>>

----------------------------------------------------------------------------
(* Bounds of the model. *)

Width == 1              \* probed width of the video
Height == 1             \* probed height of the video
NumFrames == 2          \* probed nb_frames of the video
MaxExtra == 1           \* a caller's buffer is at most this much longer than a frame
MaxReads == NumFrames + 1   \* Read calls per run: every frame and the end of the stream
MaxRandom == 1          \* ReadFrame/ReadFrames/GetVideoFrame calls per run
MaxIndices == 2         \* indices per ReadFrames call
MaxWrites == 2          \* Write calls per run
MaxSignals == 1         \* signals delivered per run
MaxCalls == 4           \* calls of the caller per run, of all kinds together
MaxShort == 1           \* short writes of the pipe per Write call
MaxStreams == 2         \* streams of one type in a probed file
MaxPairs == 2           \* key=value entries the probe tool prints per stream
MaxTokens == 3          \* '|'-separated tokens in a probe text
MaxLines == 4           \* lines of a device listing

(* Program constants. *)

Depth == 4              \* video.go:152, depth of an RGBA frame
CleanupChanCap == 1     \* video.go:157, capacity of closeCleanupChan
SignalChanCap == 1      \* video.go:408, capacity of the watcher's channel c

Nil == "nil"

\* A machine with both tools installed, the video file and a stream file.
Healthy ==
    [files |-> {"video.mp4", "audio.mp3"}, programs |-> {"ffmpeg", "ffprobe"},
     video |-> "some", other |-> "some"]

\* No parsing function has been called.
NoParse == [fn |-> "none", input |-> <<>>, text |-> <<>>, out |-> <<>>, err |-> FALSE]

\* exists(filename): os.Stat succeeds.
exists(h, filename) == filename \in h.files

\* installed(program): the program can be started and exits with success.
installed(h, program) == program \in h.programs

FrameSize == Width * Height * Depth

Min(a, b) == IF a < b THEN a ELSE b

Zeros(n) == [i \in 1..n |-> 0]

\* The k-th frame (from 0) the engine decodes from the file.
Frame(k) == [j \in 1..FrameSize |-> k * FrameSize + j]

\* The first n bytes of the engine's sequential output.
Stream(n) == [i \in 1..n |-> i]

----------------------------------------------------------------------------
(* io.ReadFull(pipe, buf) as Video.Read, ReadFrame and GetVideoFrame use   *)
(* it: it asks for len(buf) bytes.  src is everything the process behind   *)
(* the pipe emits, pos how much of it was consumed.                        *)

\* A read that is content with the bytes that are there.
ReadAvailable(pipe, buf, src, pos) ==
    LET want == Len(buf)
        got == Min(want, Len(src) - pos)
    IN  IF want = 0 THEN [err |-> FALSE, panic |-> FALSE, buf |-> buf, pos |-> pos]
        ELSE IF pipe = Nil THEN [err |-> TRUE, panic |-> TRUE, buf |-> buf, pos |-> pos]
        ELSE IF pipe = "closed" THEN [err |-> TRUE, panic |-> FALSE, buf |-> buf, pos |-> pos]
        ELSE [err |-> got = 0, panic |-> FALSE,
              buf |-> [i \in 1..Len(buf) |-> IF i <= got THEN src[pos + i] ELSE buf[i]],
              pos |-> pos + got]

ReadFull(pipe, buf, src, pos) ==
    LET want == Len(buf)
        got == Min(want, Len(src) - pos)
    IN  IF want = 0 THEN [err |-> FALSE, panic |-> FALSE, buf |-> buf, pos |-> pos]
        ELSE IF pipe = Nil THEN [err |-> TRUE, panic |-> TRUE, buf |-> buf, pos |-> pos]
        ELSE IF pipe = "closed" THEN [err |-> TRUE, panic |-> FALSE, buf |-> buf, pos |-> pos]
        ELSE [err |-> got < want, panic |-> FALSE,
              buf |-> [i \in 1..Len(buf) |-> IF i <= got THEN src[pos + i] ELSE buf[i]],
              pos |-> pos + got]

----------------------------------------------------------------------------
(* The select filter.  An expression is the sequence of its eq(n\,i)       *)
(* terms, joined by '+' in the string the code builds.                      *)

buildSelectExpression(n) == [index \in 1..Len(n) |-> [fn |-> "eq", frame |-> n[index]]]

\* ffmpeg's select filter keeps frame k when the sum of the terms is non-zero.
Selects(expr, k) == \E t \in 1..Len(expr) : expr[t].fn = "eq" /\ expr[t].frame = k

\* The one-shot engine's whole output for a select expression: the frames of
\* the file in stream order, frames 0..upto-1, each selected frame once.
RECURSIVE SelectOutput(_, _)
SelectOutput(expr, upto) ==
    IF upto = 0 THEN <<>>
    ELSE SelectOutput(expr, upto - 1)
         \o (IF Selects(expr, upto - 1) THEN Frame(upto - 1) ELSE <<>>)

----------------------------------------------------------------------------
(* Construction. *)

\* A constructor that opens the decode pipeline eagerly.
NewVideoEager ==
    [ width |-> Width, height |-> Height, depth |-> Depth, frames |-> NumFrames,
      framebuffer |-> Zeros(FrameSize), pipe |-> "open", cmd |-> "running",
      closeCleanupChan |-> [n |-> 0, closed |-> FALSE],
      cleanupClosed |-> FALSE ]

\* NewVideoStreams: the struct literal and addVideoData for one probed stream.
NewVideo ==
    [ width |-> Width, height |-> Height, depth |-> Depth, frames |-> NumFrames,
      framebuffer |-> <<>>, pipe |-> Nil, cmd |-> Nil,
      closeCleanupChan |-> [n |-> 0, closed |-> FALSE],
      cleanupClosed |-> FALSE ]

\* What the probe's record holds for a key whose number is n: no entry, a
\* text strconv.ParseFloat rejects, or the number.
MetadataValues(n) ==
    {[present |-> FALSE, parses |-> FALSE, n |-> 0],
     [present |-> TRUE, parses |-> FALSE, n |-> 0],
     [present |-> TRUE, parses |-> TRUE, n |-> n]}

\* parse(data): 0 when strconv.ParseFloat fails.
parse(data) == IF data.parses THEN data.n ELSE 0

\* Video.addVideoData on the zero width and height of the struct literal.
addVideoData(v, data) ==
    [v EXCEPT !.width = IF data.width.present THEN parse(data.width) ELSE 0,
              !.height = IF data.height.present THEN parse(data.height) ELSE 0]

\* A NewVideoStreams that does not look at how many video streams the probe found.
NewVideoStreamsUnchecked(h, filename) ==
    IF ~exists(h, filename) THEN [streams |-> <<>>, err |-> TRUE]
    ELSE IF ~installed(h, "ffmpeg") THEN [streams |-> <<>>, err |-> TRUE]
    ELSE IF ~installed(h, "ffprobe") THEN [streams |-> <<>>, err |-> TRUE]
    ELSE IF h.video = "fails" THEN [streams |-> <<>>, err |-> TRUE]
    ELSE IF h.other = "fails" THEN [streams |-> <<>>, err |-> TRUE]
    ELSE [streams |-> IF h.video = "none" THEN <<>> ELSE <<NewVideo>>, err |-> FALSE]

\* NewVideoStreams(filename): h.video is what ffprobe(filename, "v") yields,
\* h.other what the probes of the other stream types yield.
NewVideoStreams(h, filename) ==
    IF ~exists(h, filename) THEN [streams |-> <<>>, err |-> TRUE]
    ELSE IF ~installed(h, "ffmpeg") THEN [streams |-> <<>>, err |-> TRUE]
    ELSE IF ~installed(h, "ffprobe") THEN [streams |-> <<>>, err |-> TRUE]
    ELSE IF h.video = "fails" THEN [streams |-> <<>>, err |-> TRUE]
    ELSE IF h.video = "none" THEN [streams |-> <<>>, err |-> TRUE]
    ELSE IF h.other = "fails" THEN [streams |-> <<>>, err |-> TRUE]
    ELSE [streams |-> <<NewVideo>>, err |-> FALSE]

\* The (*Video)(nil) a failed NewVideo returns.
NoVideo == [nil |-> TRUE]

\* A goroutine that does not exist (yet).
NoWatcher == [pc |-> "none", c |-> 0, notify |-> FALSE]

\* What a call reports back to the caller.
Return(op, ok, n, frames, started, complete) ==
    [op |-> op, ok |-> ok, n |-> n, frames |-> frames, started |-> started, complete |-> complete]

\* cleanup(): make(chan os.Signal, 1), signal.Notify, go func() { select ... }.
cleanup == [pc |-> "select", c |-> 0, notify |-> TRUE]

----------------------------------------------------------------------------
(* Video. *)

\* Video.init after its call of cleanup(): cmd is stored before the pipe is
\* made and the process started; either of the two may fail.
VideoInit(v, pipeOk, startOk) ==
    LET v1 == [v EXCEPT !.cmd = "unstarted"]
    IN  IF ~pipeOk THEN [video |-> v1, err |-> TRUE]
        ELSE IF ~startOk THEN [video |-> [v1 EXCEPT !.pipe = "closed"], err |-> TRUE]
        ELSE [video |-> [v1 EXCEPT !.pipe = "open", !.cmd = "running",
                                   !.framebuffer = IF @ = <<>>
                                                   THEN Zeros(v.width * v.height * v.depth)
                                                   ELSE @],
              err |-> FALSE]

\* A Close that signals the watcher on every call, without the cleanupClosed flag.
VideoCloseUnguarded(v) ==
    LET ch == v.closeCleanupChan
        sent == IF ch.closed THEN "panic: send on closed channel"
                ELSE IF ch.n >= CleanupChanCap THEN "blocked"
                ELSE "sent"
        v1 == IF sent = "sent"
              THEN [v EXCEPT !.cleanupClosed = TRUE,
                             !.closeCleanupChan = [n |-> ch.n + 1, closed |-> TRUE]]
              ELSE [v EXCEPT !.cleanupClosed = TRUE]
        v2 == [v1 EXCEPT !.pipe = IF @ # Nil THEN "closed" ELSE @,
                         !.cmd = IF @ \in {"running", "killed"} THEN "waited" ELSE @]
    IN  IF sent \in {"panic: send on closed channel", "blocked"}
        THEN [video |-> v1, prog |-> sent]
        ELSE [video |-> v2, prog |-> "running"]

\* Video.Close on the struct v: the send on closeCleanupChan blocks when the
\* buffer is full and panics when the channel is closed.
VideoClose(v) ==
    LET ch == v.closeCleanupChan
        sent == IF v.cleanupClosed THEN "skip"
                ELSE IF ch.closed THEN "panic: send on closed channel"
                ELSE IF ch.n >= CleanupChanCap THEN "blocked"
                ELSE "sent"
        v1 == IF sent = "sent"
              THEN [v EXCEPT !.cleanupClosed = TRUE,
                             !.closeCleanupChan = [n |-> ch.n + 1, closed |-> TRUE]]
              ELSE IF sent = "skip" THEN v
              ELSE [v EXCEPT !.cleanupClosed = TRUE]
        v2 == [v1 EXCEPT !.pipe = IF @ # Nil THEN "closed" ELSE @,
                         !.cmd = IF @ \in {"running", "killed"} THEN "waited" ELSE @]
    IN  IF sent \in {"panic: send on closed channel", "blocked"}
        THEN [video |-> v1, prog |-> sent]
        ELSE [video |-> v2, prog |-> "running"]

Alive == prog = "running"

TotalCalls == calls.Read + calls.Random + calls.Write
              + calls.Close + calls.WriterClose + calls.SetFrameBuffer + calls.New
              + calls.CameraRead + calls.CameraClose

\* The caller goroutine is free to make its next call.
CanCall == Alive /\ TotalCalls < MaxCalls

\* The sizes a caller gives its own buffers: nil, one byte short, exact, longer.
BufferLens == {0} \cup ((FrameSize - 1)..(FrameSize + MaxExtra))

\* Frame indices a caller asks for: one below the first, every frame, one past the last.
Indices == (0 - 1)..NumFrames

Bump(field) == [calls EXCEPT ![field] = @ + 1]

\* Video.Read: the lazy init, one io.ReadFull into the frame buffer, Close on error.
Read ==
    /\ UNCHANGED <<host, given, encoder, parsed, collect, camera>>
    /\ CanCall
    /\ calls.Read < MaxReads
    /\ \E pipeOk, startOk \in BOOLEAN :
        LET first == video.cmd = Nil
            i == IF first THEN VideoInit(video, pipeOk, startOk)
                 ELSE [video |-> video, err |-> FALSE]
            r == ReadFull(i.video.pipe, i.video.framebuffer, Stream(stdout.len), stdout.pos)
            filled == [i.video EXCEPT !.framebuffer = r.buf]
            c == VideoClose(filled)
            started == first /\ ~i.err
        IN  /\ (~first => (pipeOk /\ startOk))
            /\ vwatch' = IF first THEN cleanup ELSE vwatch
            /\ IF i.err
               THEN /\ video' = i.video
                    /\ ret' = Return("Read", FALSE, <<>>, <<>>, FALSE, FALSE)
                    /\ UNCHANGED <<stdout, prog>>
               ELSE IF r.panic
               THEN /\ video' = i.video
                    /\ prog' = "panic"
                    /\ ret' = Return("Read", FALSE, <<>>, <<>>, started, FALSE)
                    /\ UNCHANGED stdout
               ELSE IF r.err
               THEN /\ video' = c.video
                    /\ prog' = c.prog
                    /\ stdout' = [stdout EXCEPT !.pos = r.pos]
                    /\ ret' = Return("Read", FALSE, <<>>, <<>>, started, FALSE)
               ELSE /\ video' = filled
                    /\ stdout' = [stdout EXCEPT !.pos = r.pos]
                    /\ ret' = Return("Read", TRUE, <<>>, <<>>, started, FALSE)
                    /\ UNCHANGED prog
    /\ calls' = Bump("Read")
    /\ UNCHANGED <<writer, wwatch, stdin, oneshot, sig>>

\* Video.Close called by the caller.
Close ==
    /\ UNCHANGED <<host, given, encoder, parsed, collect, camera>>
    /\ CanCall
    /\ LET c == VideoClose(video)
       IN  /\ video' = c.video
           /\ prog' = c.prog
    /\ ret' = Return("Close", TRUE, <<>>, <<>>, FALSE, FALSE)
    /\ calls' = Bump("Close")
    /\ UNCHANGED <<vwatch, stdout, writer, wwatch, stdin, oneshot, sig>>

\* Video.SetFrameBuffer with a zeroed buffer of the caller.
SetFrameBuffer ==
    /\ UNCHANGED <<host, given, encoder, parsed, collect, camera>>
    /\ CanCall
    /\ \E n \in BufferLens :
        LET size == video.width * video.height * video.depth
        IN  IF n < size
            THEN /\ ret' = Return("SetFrameBuffer", FALSE, <<>>, <<>>, FALSE, FALSE)
                 /\ UNCHANGED video
            ELSE /\ video' = [video EXCEPT !.framebuffer = Zeros(n)]
                 /\ ret' = Return("SetFrameBuffer", TRUE, <<>>, <<>>, FALSE, FALSE)
    /\ calls' = Bump("SetFrameBuffer")
    /\ UNCHANGED <<vwatch, stdout, writer, wwatch, stdin, oneshot, prog, sig>>

----------------------------------------------------------------------------
(* Random access: one-shot engine processes.  In each call `started` says  *)
(* whether cmd.StdoutPipe() and cmd.Start() both succeed.                  *)

\* What a random-access call leaves behind once its process was started: its
\* stdout pipe, its process and the goroutine waiting on interruptChan.
Left(done) ==
    [pipe |-> IF done THEN "closed" ELSE "open",
     cmd |-> IF done THEN "waited" ELSE "running",
     c |-> 0, pc |-> "recv"]

\* The bytes a one-shot engine emits before it ends: all of its output, or a
\* prefix of it when the engine dies early.
Emitted(expr) ==
    LET all == SelectOutput(expr, NumFrames)
    IN  {all} \cup (IF Len(all) = 0 THEN {} ELSE {SubSeq(all, 1, Len(all) - FrameSize \div 2)})

\* The loop of ReadFrames: one image.NewRGBA of width x height per index, each
\* filled by io.ReadFull; the first error abandons the call.
RECURSIVE ReadImages(_, _, _, _)
ReadImages(v, src, pos, count) ==
    IF count = 0 THEN [err |-> FALSE, frames |-> <<>>]
    ELSE LET r == ReadFull("open", Zeros(4 * v.width * v.height), src, pos)
             rest == ReadImages(v, src, r.pos, count - 1)
         IN  IF r.err \/ rest.err THEN [err |-> TRUE, frames |-> <<>>]
             ELSE [err |-> FALSE, frames |-> <<r.buf>> \o rest.frames]

\* The index check of ReadFrame, ReadFrames and GetVideoFrame.
InRange(n, frames) == ~(n >= frames)

\* Video.ReadFrame(n).
ReadFrame ==
    /\ UNCHANGED <<host, given, encoder, parsed, collect, camera>>
    /\ CanCall
    /\ calls.Random < MaxRandom
    /\ calls' = Bump("Random")
    /\ UNCHANGED <<vwatch, stdout, writer, wwatch, stdin, prog, sig>>
    /\ \E n \in Indices, started \in BOOLEAN :
        IF ~InRange(n, video.frames)
        THEN /\ started
             /\ ret' = Return("ReadFrame", FALSE, <<n>>, <<>>, FALSE, FALSE)
             /\ UNCHANGED <<video, oneshot>>
        ELSE LET buf == IF video.framebuffer = <<>>
                        THEN Zeros(video.width * video.height * video.depth)
                        ELSE video.framebuffer
                 expr == buildSelectExpression(<<n>>)
             IN  IF ~started
                 THEN /\ video' = [video EXCEPT !.framebuffer = buf]
                      /\ ret' = Return("ReadFrame", FALSE, <<n>>, <<>>, FALSE, FALSE)
                      /\ UNCHANGED oneshot
                 ELSE \E src \in Emitted(expr) :
                        LET r == ReadFull("open", buf, src, 0)
                        IN  /\ video' = [video EXCEPT !.framebuffer = r.buf]
                            /\ oneshot' = Append(oneshot, Left(~r.err))
                            /\ ret' = Return("ReadFrame", ~r.err, <<n>>, <<>>, TRUE,
                                             src = SelectOutput(expr, NumFrames))

\* The argument lists of ReadFrames: up to MaxIndices indices, in any order.
IndexLists == UNION { [1..k -> Indices] : k \in 0..MaxIndices }

\* Video.ReadFrames(n...).
ReadFrames ==
    /\ UNCHANGED <<host, given, encoder, parsed, collect, camera>>
    /\ CanCall
    /\ calls.Random < MaxRandom
    /\ calls' = Bump("Random")
    /\ UNCHANGED <<video, vwatch, stdout, writer, wwatch, stdin, prog, sig>>
    /\ \E n \in IndexLists, started \in BOOLEAN :
        IF Len(n) = 0 \/ \E j \in 1..Len(n) : ~InRange(n[j], video.frames)
        THEN /\ started
             /\ ret' = Return("ReadFrames", FALSE, n, <<>>, FALSE, FALSE)
             /\ UNCHANGED oneshot
        ELSE LET expr == buildSelectExpression(n)
             IN  IF ~started
                 THEN /\ ret' = Return("ReadFrames", FALSE, n, <<>>, FALSE, FALSE)
                      /\ UNCHANGED oneshot
                 ELSE \E src \in Emitted(expr) :
                        LET r == ReadImages(video, src, 0, Len(n))
                        IN  /\ oneshot' = Append(oneshot, Left(~r.err))
                            /\ ret' = Return("ReadFrames", ~r.err, n, r.frames, TRUE,
                                             src = SelectOutput(expr, NumFrames))

\* The filenames a caller passes to GetVideoFrame.
VideoFiles == {"video.mp4", "missing.mp4"}

\* probeVideo(filename): the frame buffer size and the frame count of the
\* first video stream, or an error.
probeVideo(h) ==
    IF h.video # "some" THEN [err |-> TRUE, frameBufferSize |-> 0, framesCount |-> 0]
    ELSE [err |-> FALSE, frameBufferSize |-> Width * Height * 4, framesCount |-> NumFrames]

\* GetVideoFrame(filename, n, frameBuffer) with a zeroed buffer of the caller.
GetVideoFrame ==
    /\ UNCHANGED <<host, encoder, parsed, collect, camera>>
    /\ CanCall
    /\ calls.Random < MaxRandom
    /\ calls' = Bump("Random")
    /\ UNCHANGED <<video, vwatch, stdout, writer, wwatch, stdin, prog, sig>>
    /\ \E filename \in VideoFiles, n \in Indices, len \in BufferLens, started \in BOOLEAN :
        LET found == /\ exists(host, filename)
                     /\ installed(host, "ffmpeg")
                     /\ installed(host, "ffprobe")
            probe == probeVideo(host)
            frameBuffer == Zeros(len)
            expr == buildSelectExpression(<<n>>)
        IN  /\ given' = [given EXCEPT !.file = filename]
            /\ IF \/ ~found
                  \/ probe.err
                  \/ ~InRange(n, probe.framesCount)
                  \/ len = 0
                  \/ len < probe.frameBufferSize
                  \/ ~started
               THEN /\ found \/ started
                    /\ ret' = Return("GetVideoFrame", FALSE, <<n>>, <<frameBuffer>>, FALSE, FALSE)
                    /\ UNCHANGED oneshot
               ELSE \E src \in Emitted(expr) :
                    LET r == ReadFull("open", frameBuffer, src, 0)
                    IN  /\ oneshot' = Append(oneshot, Left(~r.err))
                        /\ ret' = Return("GetVideoFrame", ~r.err, <<n>>, <<r.buf>>, TRUE,
                                         src = SelectOutput(expr, NumFrames))

----------------------------------------------------------------------------
(* VideoWriter. *)

\* The width, height and macroblock option (0: unset) writers are constructed
\* with: one to pad by a small macroblock, one aligned to the default of 16.
WriterConfigs == {<<1, 2, 2>>, <<16, 16, 0>>}

\* What the sequential engine emits before it ends: every frame of the file,
\* or all but the second half of the last frame when it dies early.
StreamLens == {NumFrames * FrameSize, NumFrames * FrameSize - FrameSize \div 2}

(* Strings the code inspects are sequences of one-character strings. *)

\* strings.ToLower on the characters output filenames are written with.
LowerChar(c) ==
    CASE c = "W" -> "w"
      [] c = "M" -> "m"
      [] c = "V" -> "v"
      [] c = "G" -> "g"
      [] c = "I" -> "i"
      [] c = "F" -> "f"
      [] OTHER -> c

\* A ToLower that leaves every character as written.
ToLowerNone(str) == str

\* strings.ToLower of a string.
ToLower(str) == [i \in 1..Len(str) |-> LowerChar(str[i])]

HasSuffix(str, suffix) ==
    /\ Len(str) >= Len(suffix)
    /\ SubSeq(str, Len(str) - Len(suffix) + 1, Len(str)) = suffix

\* Output filenames callers pass to NewVideoWriter.
OutMp4 == <<"o", ".", "m", "p", "4">>
OutWmv == <<"o", ".", "W", "m", "v">>
OutGif == <<"o", ".", "G", "I", "F">>
OutNoDot == <<"o", "g", "i", "f">>
OutInner == <<"o", ".", "g", "i", "f", ".", "m", "p", "4">>
FileNames == {OutMp4, OutWmv, OutGif, OutNoDot, OutInner}

\* A float64 quality or fps is a whole number of quarters.
QualityUnit == 4

\* The zero value of Options, which a nil *Options is replaced by.
NoOptions ==
    [Bitrate |-> 0, Loop |-> 0, Delay |-> 0, Macro |-> 0, FPS |-> 0,
     Quality |-> 0, Codec |-> "", StreamFile |-> ""]

\* The Options values callers pass: nil, every combination of the fields the
\* rate control depends on, every combination of the GIF and geometry
\* fields, and a stream file that exists or does not.
NilOptions == [nil |-> TRUE]

OptionValues ==
    {NilOptions}
    \cup { [NoOptions EXCEPT !.Quality = q, !.Codec = c, !.Bitrate = b] :
             q \in {0 - 1, 0, 1, 3, QualityUnit, QualityUnit + 2},
             c \in {"", "libx264", "mpeg4"}, b \in {0, 1000} }
    \cup { [NoOptions EXCEPT !.Loop = l, !.Delay = d, !.Macro = m, !.FPS = f] :
             l \in {0 - 1, 0, 2}, d \in {0, 0 - 1, 5}, m \in {0 - 2, 0, 1, 2},
             f \in {0, 30 * QualityUnit} }
    \cup { [NoOptions EXCEPT !.StreamFile = f] : f \in {"audio.mp3", "missing.mp3"} }

\* The (*VideoWriter)(nil) a failed NewVideoWriter returns.
NoWriter == [nil |-> TRUE]

\* The arguments of a NewVideoWriter call; file is the filename of the last
\* GetVideoFrame call.
WriterArgs(filename, width, height, options) ==
    [filename |-> filename, width |-> width, height |-> height, options |-> options,
     file |-> ""]

\* A NewVideoWriter that compares the filename suffix as written.
NewVideoWriterCaseSensitive(h, filename, width, height, options) ==
    LET o == IF options = NilOptions THEN NoOptions ELSE options
        lower == filename
        w == [ filename |-> filename, streamfile |-> o.StreamFile,
               width |-> width, height |-> height,
               bitrate |-> o.Bitrate,
               loop |-> o.Loop,
               delay |-> IF o.Delay = 0 THEN 0 - 1 ELSE o.Delay,
               macro |-> IF o.Macro = 0 THEN 16 ELSE o.Macro,
               fps |-> IF o.FPS = 0 THEN 25 * QualityUnit ELSE o.FPS,
               quality |-> IF o.Quality = 0 THEN QualityUnit \div 2
                           ELSE IF o.Quality < 0 THEN 0
                           ELSE IF o.Quality > QualityUnit THEN QualityUnit
                           ELSE o.Quality,
               codec |-> IF o.Codec = ""
                         THEN IF HasSuffix(lower, <<".", "w", "m", "v">>) THEN "msmpeg4"
                              ELSE IF HasSuffix(lower, <<".", "g", "i", "f">>) THEN "gif"
                              ELSE "libx264"
                         ELSE o.Codec,
               pipe |-> Nil, cmd |-> Nil ]
    IN  IF ~installed(h, "ffmpeg") THEN [writer |-> NoWriter, err |-> TRUE]
        ELSE IF o.StreamFile # "" /\ ~exists(h, o.StreamFile)
        THEN [writer |-> NoWriter, err |-> TRUE]
        ELSE [writer |-> w, err |-> FALSE]

\* NewVideoWriter(filename, width, height, options).
NewVideoWriter(h, filename, width, height, options) ==
    LET o == IF options = NilOptions THEN NoOptions ELSE options
        lower == ToLower(filename)
        w == [ filename |-> filename, streamfile |-> o.StreamFile,
               width |-> width, height |-> height,
               bitrate |-> o.Bitrate,
               loop |-> o.Loop,
               delay |-> IF o.Delay = 0 THEN 0 - 1 ELSE o.Delay,
               macro |-> IF o.Macro = 0 THEN 16 ELSE o.Macro,
               fps |-> IF o.FPS = 0 THEN 25 * QualityUnit ELSE o.FPS,
               quality |-> IF o.Quality = 0 THEN QualityUnit \div 2
                           ELSE IF o.Quality < 0 THEN 0
                           ELSE IF o.Quality > QualityUnit THEN QualityUnit
                           ELSE o.Quality,
               codec |-> IF o.Codec = ""
                         THEN IF HasSuffix(lower, <<".", "w", "m", "v">>) THEN "msmpeg4"
                              ELSE IF HasSuffix(lower, <<".", "g", "i", "f">>) THEN "gif"
                              ELSE "libx264"
                         ELSE o.Codec,
               pipe |-> Nil, cmd |-> Nil ]
    IN  IF ~installed(h, "ffmpeg") THEN [writer |-> NoWriter, err |-> TRUE]
        ELSE IF o.StreamFile # "" /\ ~exists(h, o.StreamFile)
        THEN [writer |-> NoWriter, err |-> TRUE]
        ELSE [writer |-> w, err |-> FALSE]

\* The macroblock padding of one dimension in VideoWriter.init.
\* A padding that adds to a dimension that is a multiple of macro already.
PaddedAlways(d, macro) == d + (macro - (d % macro))

\* One dimension after the padding of init, for macro > 1.
Padded(d, macro) == IF d % macro > 0 THEN d + (macro - (d % macro)) ELSE d

\* One argument of the command line, with the value fmt.Sprintf formats into it.
Arg(flag, val) == [flag |-> flag, val |-> val]

\* The command line VideoWriter.init builds, in order.
Command(w) ==
    LET gif == HasSuffix(ToLower(w.filename), <<".", "g", "i", "f">>)
        pad == w.macro > 1 /\ (w.width % w.macro > 0 \/ w.height % w.macro > 0)
    IN  << Arg("-y", <<>>), Arg("-loglevel", "quiet"), Arg("-f", "rawvideo"),
           Arg("-vcodec", "rawvideo"), Arg("-s", <<w.width, w.height>>),
           Arg("-pix_fmt", "rgba"), Arg("-r", w.fps), Arg("-i", "-") >>
        \o (IF w.streamfile # "" /\ ~gif
            THEN << Arg("-i", w.streamfile), Arg("-map", "0:v:0"),
                    Arg("-map", "1:a?"), Arg("-c:a", "copy"),
                    Arg("-map", "1:s?"), Arg("-c:s", "copy"),
                    Arg("-map", "1:d?"), Arg("-c:d", "copy"),
                    Arg("-map", "1:t?"), Arg("-c:t", "copy"),
                    Arg("-shortest", <<>>) >>
            ELSE <<>>)
        \o << Arg("-vcodec", w.codec), Arg("-pix_fmt", "yuv420p") >>
        \o (IF w.bitrate = 0
            THEN IF w.codec = "libx264"
                 THEN << Arg("-crf", (w.quality * 51) \div QualityUnit) >>
                 ELSE << Arg("-qscale:v", (w.quality * 30) \div QualityUnit + 1) >>
            ELSE << Arg("-b:v", w.bitrate) >>)
        \o (IF gif THEN << Arg("-loop", w.loop), Arg("-final_delay", w.delay) >>
            ELSE <<>>)
        \o (IF pad
            THEN << Arg("-vf", <<Padded(w.width, w.macro), Padded(w.height, w.macro)>>) >>
            ELSE <<>>)
        \o << Arg(w.filename, <<>>) >>

\* VideoWriter.init after its call of cleanup().
WriterInit(w, pipeOk, startOk) ==
    LET w1 == IF w.macro > 1 /\ (w.width % w.macro > 0 \/ w.height % w.macro > 0)
              THEN [w EXCEPT !.width = Padded(w.width, w.macro),
                             !.height = Padded(w.height, w.macro)]
              ELSE w
        w2 == [w1 EXCEPT !.cmd = "unstarted"]
    IN  IF ~pipeOk THEN [writer |-> w2, err |-> TRUE]
        ELSE IF ~startOk THEN [writer |-> [w2 EXCEPT !.pipe = "closed"], err |-> TRUE]
        ELSE [writer |-> [w2 EXCEPT !.pipe = "open", !.cmd = "running"], err |-> FALSE]

\* No encode invocation has been built.
NoEncoder == [args |-> <<>>, exit |-> Nil]

\* The frames a caller writes: sized for the dimensions it constructed the
\* writer with, or for the dimensions the writer reports now.
FrameLens(w0, w) == {w0.width * w0.height * 4, w.width * w.height * 4}

\* (*writer.pipe).Write(p) with rest bytes in p: the pipe takes all of p, or
\* only a part of it, and breaks or does not.
PipeWrite(pipe, rest, short, broken) ==
    IF pipe = "closed" THEN [n |-> 0, err |-> TRUE]
    ELSE IF short > 0 /\ rest > 1 THEN [n |-> rest \div 2, err |-> FALSE]
    ELSE IF broken THEN [n |-> rest \div 2, err |-> TRUE]
    ELSE [n |-> rest, err |-> FALSE]

\* A Write that calls pipe.Write once and does not look at how much it took.
WriteOnce(pipe, len, total, short, broken) ==
    IF ~(total < len) THEN [err |-> FALSE, writes |-> <<>>]
    ELSE LET r == PipeWrite(pipe, len - total, short, broken)
         IN  [err |-> r.err, writes |-> <<[from |-> total, n |-> r.n, err |-> r.err]>>]

\* The loop of Write: the calls of pipe.Write it makes on a frame of len
\* bytes, each with the offset of the first byte it passes.
RECURSIVE WriteLoop(_, _, _, _, _)
WriteLoop(pipe, len, total, short, broken) ==
    IF ~(total < len) THEN [err |-> FALSE, writes |-> <<>>]
    ELSE LET r == PipeWrite(pipe, len - total, short, broken)
             this == [from |-> total, n |-> r.n, err |-> r.err]
             rest == WriteLoop(pipe, len, total + r.n,
                               IF short > 0 THEN short - 1 ELSE 0, broken)
         IN  IF r.err THEN [err |-> TRUE, writes |-> <<this>>]
             ELSE [err |-> rest.err, writes |-> <<this>> \o rest.writes]

RECURSIVE Handed(_)
Handed(writes) ==
    IF writes = <<>> THEN 0 ELSE writes[1].n + Handed(Tail(writes))

\* VideoWriter.Write(frame): the lazy init, then the write loop.
Write ==
    /\ UNCHANGED <<host, given, parsed, collect, camera>>
    /\ CanCall
    /\ calls.Write < MaxWrites
    /\ calls' = Bump("Write")
    /\ UNCHANGED <<video, vwatch, stdout, oneshot, sig>>
    /\ \E len \in FrameLens(writer, WriterInit(writer, TRUE, TRUE).writer),
          pipeOk, startOk, broken \in BOOLEAN, short \in 0..MaxShort :
        LET first == writer.cmd = Nil
            i == IF first THEN WriterInit(writer, pipeOk, startOk)
                 ELSE [writer |-> writer, err |-> FALSE]
            started == first /\ ~i.err
            l == WriteLoop(i.writer.pipe, len, 0, short, broken)
        IN  /\ (~first => (pipeOk /\ startOk))
            /\ writer' = i.writer
            /\ wwatch' = IF first THEN cleanup ELSE wwatch
            /\ encoder' = IF first THEN [args |-> Command(writer), exit |-> Nil]
                          ELSE encoder
            /\ IF i.err
               THEN /\ ~broken /\ short = 0
                    /\ ret' = Return("Write", FALSE, <<len>>, <<>>, FALSE, FALSE)
                    /\ UNCHANGED <<stdin, prog>>
               ELSE IF i.writer.pipe = Nil
               THEN /\ ~broken /\ short = 0
                    /\ prog' = "panic"
                    /\ ret' = Return("Write", FALSE, <<len>>, <<>>, started, FALSE)
                    /\ UNCHANGED stdin
               ELSE /\ (i.writer.pipe = "closed" => (~broken /\ short = 0))
                    /\ stdin' = stdin + Handed(l.writes)
                    /\ ret' = Return("Write", ~l.err, <<len>>, l.writes, started, ~l.err)
                    /\ UNCHANGED prog

\* VideoWriter.Close: the pipe is closed, the process waited for; the
\* result of cmd.Wait() is dropped.
WriterClose ==
    /\ UNCHANGED <<host, given, parsed, collect, camera>>
    /\ CanCall
    /\ writer' = [writer EXCEPT !.pipe = IF @ # Nil THEN "closed" ELSE @,
                                !.cmd = IF @ \in {"running", "killed"} THEN "waited" ELSE @]
    /\ \E exit \in {"ok", "failed"} :
         IF writer.cmd \in {"running", "killed"}
         THEN /\ (writer.cmd = "killed" => exit = "failed")
              /\ encoder' = [encoder EXCEPT !.exit = exit]
         ELSE /\ exit = "ok"
              /\ UNCHANGED encoder
    /\ ret' = Return("WriterClose", TRUE, <<>>, <<>>, FALSE, FALSE)
    /\ calls' = Bump("WriterClose")
    /\ UNCHANGED <<video, vwatch, stdout, wwatch, stdin, oneshot, prog, sig>>

----------------------------------------------------------------------------
(* Probing.  Texts are sequences of one-character strings. *)

\* The position of the first c in str, or 0.
RECURSIVE Index(_, _, _)
Index(str, c, from) ==
    IF from > Len(str) THEN 0
    ELSE IF str[from] = c THEN from
    ELSE Index(str, c, from + 1)

\* strings.Contains(str, c) for a one-character c.
Contains(str, c) == Index(str, c, 1) # 0

\* strings.Split(str, sep) for a one-character sep.
RECURSIVE Split(_, _)
Split(str, sep) ==
    LET i == Index(str, sep, 1)
    IN  IF i = 0 THEN <<str>>
        ELSE <<SubSeq(str, 1, i - 1)>> \o Split(SubSeq(str, i + 1, Len(str)), sep)

\* A map[string]string is a function from its keys to their values.
EmptyMap == <<>>

\* The loop of parseFFprobe over the '|'-separated lines.
RECURSIVE ParseLines(_, _)
ParseLines(lines, data) ==
    IF lines = <<>> THEN data
    ELSE LET line == lines[1]
             keyValue == Split(line, "=")
             next == IF Contains(line, "=") /\ keyValue[1] \notin DOMAIN data
                     THEN [k \in DOMAIN data \cup {keyValue[1]} |->
                             IF k = keyValue[1] THEN keyValue[2] ELSE data[k]]
                     ELSE data
         IN  ParseLines(Tail(lines), next)

\* parseFFprobe(input).
parseFFprobe(input) == ParseLines(Split(input, "|"), EmptyMap)

\* The keys and values the probe tool prints.
Keys == {<<"w">>, <<"h">>}
Values == {<<"1">>, <<"2">>, <<"1", "=", "2">>}

RECURSIVE Join(_, _)
Join(strs, sep) ==
    IF strs = <<>> THEN <<>>
    ELSE IF Len(strs) = 1 THEN strs[1]
    ELSE strs[1] \o <<sep>> \o Join(Tail(strs), sep)

\* One stream as ffprobe -print_format compact prints it: a line
\* stream|key=value|...|key=value.
CompactLine(stream) ==
    Join(<<<<"s">>>> \o [i \in 1..Len(stream) |-> stream[i][1] \o <<"=">> \o stream[i][2]],
         "|") \o <<"\n">>

RECURSIVE Compact(_)
Compact(streams) ==
    IF streams = <<>> THEN <<>> ELSE CompactLine(streams[1]) \o Compact(Tail(streams))

\* The streams of one type a file can hold: each a list of key, value pairs.
StreamRecords == UNION { [1..n -> Keys \X Values] : n \in 1..MaxPairs }
StreamLists == UNION { [1..n -> StreamRecords] : n \in 0..MaxStreams }

\* The probe texts handed to parseFFprobe directly.
ProbeTokens == {<<"s">>} \cup { kv[1] \o <<"=">> \o kv[2] : kv \in Keys \X Values }
ProbeTexts == { Join(t, "|") : t \in UNION { [1..n -> ProbeTokens] : n \in 0..MaxTokens } }

\* buffer := make([]byte, 2<<10) in ffprobe.
ProbeBufferSize == 2048

\* ffprobe(filename, stype): the probe process prints the streams of the
\* type, the loop collects the output, parseFFprobe reads it.  The loop
\* ends at io.EOF only, and a full buffer reads nothing more.
ffprobeCall ==
    /\ Alive
    /\ parsed = NoParse
    /\ \E streams \in StreamLists, ok \in BOOLEAN :
        LET text == Compact(streams)
        IN  IF ~ok
            THEN /\ streams = <<>>
                 /\ parsed' = [fn |-> "ffprobe", input |-> streams, text |-> <<>>,
                               out |-> EmptyMap, err |-> TRUE]
                 /\ UNCHANGED prog
            ELSE IF Len(text) >= ProbeBufferSize
            THEN /\ prog' = "blocked"
                 /\ UNCHANGED parsed
            ELSE /\ parsed' = [fn |-> "ffprobe", input |-> streams, text |-> text,
                               out |-> parseFFprobe(text), err |-> FALSE]
                 /\ UNCHANGED prog
    /\ UNCHANGED <<video, vwatch, stdout, writer, wwatch, stdin, oneshot, sig, ret, calls,
                   host, given, encoder, collect, camera>>

\* parseFFprobe called on a probe text.
parseFFprobeCall ==
    /\ Alive
    /\ parsed = NoParse
    /\ \E text \in ProbeTexts :
        parsed' = [fn |-> "parseFFprobe", input |-> text, text |-> text,
                   out |-> parseFFprobe(text), err |-> FALSE]
    /\ UNCHANGED <<video, vwatch, stdout, writer, wwatch, stdin, oneshot, prog, sig, ret,
                   calls, host, given, encoder, collect, camera>>

----------------------------------------------------------------------------
(* Device listings.  A listing is a sequence of words; a word is a run of  *)
(* text the code never looks into, in quotes or not, or a line break.      *)

Word(text) == [q |-> FALSE, text |-> text]
Quoted(name) == [q |-> TRUE, text |-> name]
LineBreak == Word("\n")

\* strings.ToLower on the words of a listing.
LowerWord(text) ==
    CASE text = "DirectShow video devices" -> "directshow video devices"
      [] text = "DirectShow audio devices" -> "directshow audio devices"
      [] text = "Alternative name" -> "alternative name"
      [] OTHER -> text

\* strings.Index(strings.ToLower(bufferstr), header): the first word that
\* holds the header, or 0.
RECURSIVE IndexWord(_, _, _)
IndexWord(words, lower, from) ==
    IF from > Len(words) THEN 0
    ELSE IF LowerWord(words[from].text) = lower THEN from
    ELSE IndexWord(words, lower, from + 1)

\* strings.Split(bufferstr, "\n").
RECURSIVE SplitLines(_)
SplitLines(words) ==
    LET i == IndexWord(words, "\n", 1)
    IN  IF i = 0 THEN <<words>>
        ELSE <<SubSeq(words, 1, i - 1)>> \o SplitLines(SubSeq(words, i + 1, Len(words)))

\* regex.FindString(line) for "[^"]+": the first quoted name of the line,
\* without its quotes, or "".
RECURSIVE FindString(_)
FindString(line) ==
    IF line = <<>> THEN ""
    ELSE IF line[1].q THEN line[1].text
    ELSE FindString(Tail(line))

\* The loop of parseDevices over the lines: name and alternative name of
\* each device; an alternative name with no device before it indexes
\* pairs[-1].
RECURSIVE DevicePairs(_, _)
DevicePairs(lines, pairs) ==
    IF lines = <<>> THEN [panic |-> FALSE, pairs |-> pairs]
    ELSE LET line == lines[1]
             match == FindString(line)
         IN  IF IndexWord(line, "alternative name", 1) # 0
             THEN IF match = "" THEN DevicePairs(Tail(lines), pairs)
                  ELSE IF pairs = <<>> THEN [panic |-> TRUE, pairs |-> pairs]
                  ELSE DevicePairs(Tail(lines),
                                   [pairs EXCEPT ![Len(pairs)].alt = match])
             ELSE IF match = "" THEN DevicePairs(Tail(lines), pairs)
                  ELSE DevicePairs(Tail(lines),
                                   Append(pairs, [name |-> match, alt |-> ""]))

\* The second loop of parseDevices: a name already listed gives way to the
\* device's alternative name.
RECURSIVE DeviceNames(_, _)
DeviceNames(pairs, devices) ==
    IF pairs = <<>> THEN devices
    ELSE DeviceNames(Tail(pairs),
                     Append(devices,
                            IF \E i \in 1..Len(devices) : devices[i] = pairs[1].name
                            THEN pairs[1].alt ELSE pairs[1].name))

\* parseDevices(buffer).
parseDevices(buffer) ==
    LET vindex == IndexWord(buffer, "directshow video devices", 1)
        from == IF vindex # 0 THEN SubSeq(buffer, vindex, Len(buffer)) ELSE buffer
        audio == IndexWord(from, "directshow audio devices", 1)
        upto == IF audio # 0 THEN SubSeq(from, 1, audio - 1) ELSE from
        p == DevicePairs(SplitLines(upto), <<>>)
    IN  [panic |-> p.panic, devices |-> DeviceNames(p.pairs, <<>>)]

\* The lines ffmpeg's device listing is made of.
ListingLines ==
    { <<Word("DirectShow video devices")>>, <<Word("DirectShow audio devices")>>,
      <<Word("[dshow]"), Quoted("cam")>>, <<Word("[dshow]"), Quoted("mic")>>,
      <<Word("Alternative name"), Quoted("@cam")>>,
      <<Word("ffmpeg version")>> }

RECURSIVE Unlines(_)
Unlines(lines) ==
    IF lines = <<>> THEN <<>>
    ELSE IF Len(lines) = 1 THEN lines[1]
    ELSE lines[1] \o <<LineBreak>> \o Unlines(Tail(lines))

Listings == { Unlines(l) : l \in UNION { [1..n -> ListingLines] : n \in 0..MaxLines } }

\* parseDevices called on a device listing.
parseDevicesCall ==
    /\ Alive
    /\ parsed = NoParse
    /\ \E buffer \in Listings :
        LET r == parseDevices(buffer)
        IN  /\ parsed' = [fn |-> "parseDevices", input |-> buffer, text |-> buffer,
                          out |-> r.devices, err |-> r.panic]
            /\ prog' = IF r.panic THEN "panic" ELSE prog
    /\ UNCHANGED <<video, vwatch, stdout, writer, wwatch, stdin, oneshot, sig, ret,
                   calls, host, given, encoder, collect, camera>>

----------------------------------------------------------------------------
(* The loops that collect the output of a tool: ffprobe (utils.go:62-71),  *)
(* getDevicesWindows (camera.go:43-52) and getCameraData (camera.go:78-87). *)
(* Only the number of bytes matters to them.                                *)

\* buffer := make([]byte, 2<<11) in getCameraData.
CameraBufferSize == 4096

\* The collecting functions, each with the size of its buffer.
Collectors ==
    {<<"ffprobe", ProbeBufferSize>>, <<"getDevicesWindows", ProbeBufferSize>>,
     <<"getCameraData", CameraBufferSize>>}

\* No collecting function is running.  odd tells whether the loop has made an
\* odd number of iterations.
NoCollect ==
    [fn |-> "none", pc |-> "idle", size |-> 0, total |-> 0, len |-> 0, left |-> 0,
     broken |-> FALSE, odd |-> FALSE]

\* What a tool prints: nothing, one byte, one byte less than the buffer
\* holds, as much as it holds, one byte more.
OutputLens(size) == {0, 1, size - 1, size, size + 1}

\* The byte counts one read of a pipe holding avail bytes can return.
Chunks(avail) == {avail, (avail + 1) \div 2}

\* pipe.Read(b) for len(b) = lenb, when the tool has left bytes still to
\* print: a read into an empty slice returns 0 and no error, a broken pipe
\* its error, a drained pipe io.EOF.
PipeRead(lenb, left, broken, n) ==
    IF lenb = 0 THEN [n |-> 0, err |-> "nil"]
    ELSE IF broken THEN [n |-> 0, err |-> "failed"]
    ELSE IF left = 0 THEN [n |-> 0, err |-> "EOF"]
    ELSE [n |-> n, err |-> "nil"]

\* The tool is started and the loop is entered with total = 0.
CollectStart ==
    /\ Alive
    /\ collect.pc = "idle"
    /\ \E c \in Collectors :
         \E len \in OutputLens(c[2]) :
            collect' = [fn |-> c[1], pc |-> "loop", size |-> c[2], total |-> 0,
                        len |-> len, left |-> len, broken |-> FALSE, odd |-> FALSE]
    /\ UNCHANGED <<video, vwatch, stdout, writer, wwatch, stdin, oneshot, prog, sig, ret,
                   calls, host, given, encoder, parsed, camera>>

\* One iteration: n, err := pipe.Read(buffer[total:]); total += n; the loop
\* is left only when err == io.EOF.  The pipe may break for good before it.
CollectRead ==
    /\ Alive
    /\ collect.pc = "loop"
    /\ \E breaks \in BOOLEAN :
         \E n \in Chunks(Min(collect.left, collect.size - collect.total)) :
            LET broken == collect.broken \/ breaks
                r == PipeRead(collect.size - collect.total, collect.left, broken, n)
            IN  /\ (breaks => ~collect.broken)
                /\ collect' = [collect EXCEPT !.total = @ + r.n, !.left = @ - r.n,
                                              !.broken = broken, !.odd = ~@,
                                              !.pc = IF r.err = "EOF" THEN "done" ELSE @]
    /\ UNCHANGED <<video, vwatch, stdout, writer, wwatch, stdin, oneshot, prog, sig, ret,
                   calls, host, given, encoder, parsed, camera>>

----------------------------------------------------------------------------
(* Camera. *)

\* Camera{name: device, depth: 3} in NewCamera (camera.go:120).
CameraDepth == 3

CameraFrameSize == Width * Height * CameraDepth

\* What the capture process emits before it ends: any number of bytes up to
\* NumFrames frames.
CaptureLens == 0..(NumFrames * CameraFrameSize)

\* No Camera has been constructed.
NoCamera == [nil |-> TRUE]

\* NewCamera(stream) with the width and height getCameraData parsed; stream
\* is the output of the capture process that the first Read starts, total
\* and pc the local variable and the position of a running Read, odd whether
\* its loop has made an odd number of iterations.
NewCamera(len) ==
    [ width |-> Width, height |-> Height, depth |-> CameraDepth,
      framebuffer |-> <<>>, pipe |-> Nil, cmd |-> Nil, watch |-> NoWatcher,
      stream |-> [len |-> len, pos |-> 0], total |-> 0, pc |-> "idle", odd |-> FALSE ]

\* Camera.cleanup(): make(chan os.Signal), signal.Notify, go func() { <-c ... }.
cameraCleanup == [pc |-> "recv", c |-> 0, notify |-> TRUE]

\* initCamera after its call of cleanup(): it panics where Video.init returns
\* an error, and allocates the frame buffer.
initCamera(c, pipeOk, startOk) ==
    LET c1 == [c EXCEPT !.watch = cameraCleanup, !.cmd = "unstarted"]
    IN  IF ~pipeOk THEN [camera |-> c1, panic |-> TRUE]
        ELSE IF ~startOk THEN [camera |-> [c1 EXCEPT !.pipe = "open"], panic |-> TRUE]
        ELSE [camera |-> [c1 EXCEPT !.pipe = "open", !.cmd = "running",
                                    !.framebuffer = Zeros(c.width * c.height * c.depth)],
              panic |-> FALSE]

\* Camera.Read up to its loop: the lazy initCamera, then total := 0.
CameraRead ==
    /\ CanCall
    /\ camera # NoCamera
    /\ camera.pc = "idle"
    /\ calls.CameraRead < MaxReads
    /\ calls' = Bump("CameraRead")
    /\ \E pipeOk, startOk \in BOOLEAN :
        LET first == camera.cmd = Nil
            i == IF first THEN initCamera(camera, pipeOk, startOk)
                 ELSE [camera |-> camera, panic |-> FALSE]
        IN  /\ (~first => (pipeOk /\ startOk))
            /\ (~pipeOk => startOk)
            /\ IF i.panic
               THEN /\ camera' = i.camera
                    /\ prog' = "panic"
               ELSE /\ camera' = [i.camera EXCEPT !.total = 0, !.pc = "loop", !.odd = FALSE]
                    /\ UNCHANGED prog
    /\ UNCHANGED <<video, vwatch, stdout, writer, wwatch, stdin, oneshot, sig, ret,
                   host, given, encoder, parsed, collect>>

\* One test of the loop condition of Camera.Read and, when it holds, one
\* iteration: n, _ := pipe.Read(framebuffer[total:]); total += n.  The error
\* is dropped.  When the condition fails Read returns true.
CameraReadLoop ==
    /\ Alive
    /\ camera # NoCamera
    /\ camera.pc = "loop"
    /\ LET size == camera.width * camera.height * camera.depth
           s == camera.stream
       IN  IF ~(camera.total < size)
           THEN /\ camera' = [camera EXCEPT !.pc = "idle"]
                /\ ret' = Return("CameraRead", TRUE, <<>>, <<camera.framebuffer>>,
                                 FALSE, camera.total = size)
           ELSE /\ \E n \in Chunks(Min(s.len - s.pos, size - camera.total)) :
                     LET r == PipeRead(size - camera.total, s.len - s.pos,
                                       camera.pipe = "closed", n)
                     IN  camera' =
                           [camera EXCEPT
                              !.framebuffer =
                                  [j \in 1..Len(@) |->
                                     IF j > camera.total /\ j <= camera.total + r.n
                                     THEN Stream(s.len)[s.pos + j - camera.total]
                                     ELSE @[j]],
                              !.total = @ + r.n,
                              !.stream.pos = @ + r.n,
                              !.odd = ~@]
                /\ UNCHANGED ret
    /\ UNCHANGED <<video, vwatch, stdout, writer, wwatch, stdin, oneshot, prog, sig,
                   calls, host, given, encoder, parsed, collect>>

\* Camera.Close: the pipe is closed and the process killed, not waited for.
CameraClose ==
    /\ CanCall
    /\ camera # NoCamera
    /\ camera.pc = "idle"
    /\ calls' = Bump("CameraClose")
    /\ camera' = [camera EXCEPT !.pipe = IF @ # Nil THEN "closed" ELSE @,
                                !.cmd = IF @ = "running" THEN "killed" ELSE @]
    /\ ret' = Return("CameraClose", TRUE, <<>>, <<>>, FALSE, FALSE)
    /\ UNCHANGED <<video, vwatch, stdout, writer, wwatch, stdin, oneshot, prog, sig,
                   host, given, encoder, parsed, collect>>

----------------------------------------------------------------------------
(* The signal and the watcher goroutines. *)

\* x.pipe.Close() when x.pipe != nil.
ClosePipe(x) == [x EXCEPT !.pipe = IF @ # Nil THEN "closed" ELSE @]

\* x.cmd.Process.Kill() when x.cmd != nil: cmd.Process is nil until Start
\* has succeeded.
KillPanics(x) == x.cmd = "unstarted"

Kill(x) == [x EXCEPT !.cmd = IF @ = "running" THEN "killed" ELSE @]

\* The runtime hands the signal to a registered channel with room for it.
Deliver(w) == IF w.notify /\ w.c < SignalChanCap THEN [w EXCEPT !.c = @ + 1] ELSE w

\* An interrupt or terminate signal arrives.  With no channel registered the
\* default disposition ends the program.
Signal ==
    /\ UNCHANGED <<host, given, encoder, parsed, collect, camera>>
    /\ Alive
    /\ sig < MaxSignals
    /\ sig' = sig + 1
    /\ vwatch' = Deliver(vwatch)
    /\ wwatch' = Deliver(wwatch)
    /\ oneshot' = [i \in 1..Len(oneshot) |->
                     IF oneshot[i].c < SignalChanCap
                     THEN [oneshot[i] EXCEPT !.c = @ + 1] ELSE oneshot[i]]
    /\ prog' = IF vwatch.notify \/ wwatch.notify \/ Len(oneshot) > 0
               THEN prog ELSE "signalled"
    /\ UNCHANGED <<video, stdout, writer, stdin, ret, calls>>

\* Video.cleanup, case <-video.closeCleanupChan: signal.Stop(c); close(c).
VideoWatcherStop ==
    /\ UNCHANGED <<host, given, encoder, parsed, collect, camera>>
    /\ Alive
    /\ vwatch.pc = "select"
    /\ video.closeCleanupChan.n > 0 \/ video.closeCleanupChan.closed
    /\ video' = [video EXCEPT !.closeCleanupChan.n = IF @ > 0 THEN @ - 1 ELSE @]
    /\ vwatch' = [pc |-> "stopped", c |-> 0, notify |-> FALSE]
    /\ UNCHANGED <<stdout, writer, wwatch, stdin, oneshot, prog, sig, ret, calls>>

\* Video.cleanup, case <-c.
VideoWatcherSignal ==
    /\ UNCHANGED <<host, given, encoder, parsed, collect, camera>>
    /\ Alive
    /\ vwatch.pc = "select"
    /\ vwatch.c > 0
    /\ vwatch' = [vwatch EXCEPT !.c = @ - 1, !.pc = "close"]
    /\ UNCHANGED <<video, stdout, writer, wwatch, stdin, oneshot, prog, sig, ret, calls>>

VideoWatcherClosePipe ==
    /\ UNCHANGED <<host, given, encoder, parsed, collect, camera>>
    /\ Alive
    /\ vwatch.pc = "close"
    /\ video' = ClosePipe(video)
    /\ vwatch' = [vwatch EXCEPT !.pc = "kill"]
    /\ UNCHANGED <<stdout, writer, wwatch, stdin, oneshot, prog, sig, ret, calls>>

VideoWatcherKill ==
    /\ UNCHANGED <<host, given, encoder, parsed, collect, camera>>
    /\ Alive
    /\ vwatch.pc = "kill"
    /\ video' = Kill(video)
    /\ vwatch' = [vwatch EXCEPT !.pc = "exit"]
    /\ prog' = IF KillPanics(video) THEN "panic" ELSE prog
    /\ UNCHANGED <<stdout, writer, wwatch, stdin, oneshot, sig, ret, calls>>

VideoWatcherExit ==
    /\ UNCHANGED <<host, given, encoder, parsed, collect, camera>>
    /\ Alive
    /\ vwatch.pc = "exit"
    /\ prog' = "exited"
    /\ UNCHANGED <<video, vwatch, stdout, writer, wwatch, stdin, oneshot, sig, ret, calls>>

\* VideoWriter.cleanup: <-c, then the same three statements.
WriterWatcherSignal ==
    /\ UNCHANGED <<host, given, encoder, parsed, collect, camera>>
    /\ Alive
    /\ wwatch.pc = "select"
    /\ wwatch.c > 0
    /\ wwatch' = [wwatch EXCEPT !.c = @ - 1, !.pc = "close"]
    /\ UNCHANGED <<video, vwatch, stdout, writer, stdin, oneshot, prog, sig, ret, calls>>

WriterWatcherClosePipe ==
    /\ UNCHANGED <<host, given, encoder, parsed, collect, camera>>
    /\ Alive
    /\ wwatch.pc = "close"
    /\ writer' = ClosePipe(writer)
    /\ wwatch' = [wwatch EXCEPT !.pc = "kill"]
    /\ UNCHANGED <<video, vwatch, stdout, stdin, oneshot, prog, sig, ret, calls>>

WriterWatcherKill ==
    /\ UNCHANGED <<host, given, encoder, parsed, collect, camera>>
    /\ Alive
    /\ wwatch.pc = "kill"
    /\ writer' = Kill(writer)
    /\ wwatch' = [wwatch EXCEPT !.pc = "exit"]
    /\ prog' = IF KillPanics(writer) THEN "panic" ELSE prog
    /\ UNCHANGED <<video, vwatch, stdout, stdin, oneshot, sig, ret, calls>>

WriterWatcherExit ==
    /\ UNCHANGED <<host, given, encoder, parsed, collect, camera>>
    /\ Alive
    /\ wwatch.pc = "exit"
    /\ prog' = "exited"
    /\ UNCHANGED <<video, vwatch, stdout, writer, wwatch, stdin, oneshot, sig, ret, calls>>

\* The goroutine of a random-access call: <-interruptChan, stdoutPipe.Close(),
\* cmd.Process.Kill(), os.Exit(1).
OneShotWatcher ==
    /\ UNCHANGED <<host, given, encoder, parsed, collect, camera>>
    /\ Alive
    /\ \E i \in 1..Len(oneshot) :
        LET w == oneshot[i]
        IN  \/ /\ w.pc = "recv" /\ w.c > 0
               /\ oneshot' = [oneshot EXCEPT ![i] = [w EXCEPT !.c = @ - 1, !.pc = "close"]]
               /\ UNCHANGED prog
            \/ /\ w.pc = "close"
               /\ oneshot' = [oneshot EXCEPT ![i] = [ClosePipe(w) EXCEPT !.pc = "kill"]]
               /\ UNCHANGED prog
            \/ /\ w.pc = "kill"
               /\ oneshot' = [oneshot EXCEPT ![i] = [Kill(w) EXCEPT !.pc = "exit"]]
               /\ UNCHANGED prog
            \/ /\ w.pc = "exit"
               /\ prog' = "exited"
               /\ UNCHANGED oneshot
    /\ UNCHANGED <<video, vwatch, stdout, writer, wwatch, stdin, sig, ret, calls>>

----------------------------------------------------------------------------

\* Nothing runs: no watcher, no process, no call made.
InitIdle ==
    /\ vwatch = NoWatcher
    /\ wwatch = NoWatcher
    /\ stdin = 0
    /\ oneshot = <<>>
    /\ prog = "running"
    /\ sig = 0
    /\ ret = Return("New", TRUE, <<>>, <<>>, FALSE, FALSE)
    /\ calls = [Read |-> 0, Random |-> 0, Write |-> 0,
                Close |-> 0, WriterClose |-> 0, SetFrameBuffer |-> 0, New |-> 0,
                CameraRead |-> 0, CameraClose |-> 0]
    /\ encoder = NoEncoder
    /\ parsed = NoParse
    /\ collect = NoCollect

\* The state after construction, but for the VideoWriter.
InitBase ==
    /\ InitIdle
    /\ camera = NoCamera
    /\ host = Healthy
    /\ video = NewVideoStreams(host, "video.mp4").streams[1]

Init ==
    /\ InitBase
    /\ \E len \in StreamLens : stdout = [len |-> len, pos |-> 0]
    /\ \E cfg \in WriterConfigs :
        LET options == [NoOptions EXCEPT !.Macro = cfg[3]]
        IN  /\ writer = NewVideoWriter(host, OutMp4, cfg[1], cfg[2], options).writer
            /\ given = WriterArgs(OutMp4, cfg[1], cfg[2], options)

Next ==
    \/ Read
    \/ Close
    \/ SetFrameBuffer
    \/ ReadFrame
    \/ ReadFrames
    \/ GetVideoFrame
    \/ Write
    \/ WriterClose
    \/ Signal
    \/ VideoWatcherStop
    \/ VideoWatcherSignal
    \/ VideoWatcherClosePipe
    \/ VideoWatcherKill
    \/ VideoWatcherExit
    \/ WriterWatcherSignal
    \/ WriterWatcherClosePipe
    \/ WriterWatcherKill
    \/ WriterWatcherExit
    \/ OneShotWatcher

Spec == Init /\ [][Next]_vars

\* Construction when the caller makes no use of the VideoWriter.
InitVideo == Init /\ given.width = 1

\* A caller that reads a Video sequentially, under signals.
NextSequential ==
    \/ Read
    \/ Close
    \/ SetFrameBuffer
    \/ Signal
    \/ VideoWatcherStop
    \/ VideoWatcherSignal
    \/ VideoWatcherClosePipe
    \/ VideoWatcherKill
    \/ VideoWatcherExit

SpecSequential == InitVideo /\ [][NextSequential]_vars

\* A caller that mixes sequential and random-access reads; no signal arrives.
NextRandom ==
    \/ Read
    \/ Close
    \/ SetFrameBuffer
    \/ ReadFrame
    \/ ReadFrames
    \/ GetVideoFrame
    \/ VideoWatcherStop

SpecRandom == InitVideo /\ [][NextRandom]_vars

\* A caller that uses a Video and a VideoWriter; no signal arrives.
NextLazy ==
    \/ Read
    \/ Close
    \/ SetFrameBuffer
    \/ ReadFrame
    \/ Write
    \/ WriterClose
    \/ VideoWatcherStop

\* Its engine emits every frame: what the engine emits plays no part in when
\* the engines are started.
InitLazy == Init /\ stdout.len = NumFrames * FrameSize

SpecLazy == InitLazy /\ [][NextLazy]_vars

\* A caller that uses only the VideoWriter.
NextWriter ==
    \/ Write
    \/ WriterClose
    \/ Signal
    \/ WriterWatcherSignal
    \/ WriterWatcherClosePipe
    \/ WriterWatcherKill
    \/ WriterWatcherExit

SpecWriter == Init /\ [][NextWriter]_vars

\* The dimensions writers are constructed with.
WriterDims == {<<1, 2>>, <<2, 3>>, <<16, 16>>}

\* Construction of a VideoWriter with any filename and any Options.
InitWriter ==
    /\ InitBase
    /\ stdout = [len |-> NumFrames * FrameSize, pos |-> 0]
    /\ \E filename \in FileNames, dims \in WriterDims, options \in OptionValues :
        LET new == NewVideoWriter(host, filename, dims[1], dims[2], options)
        IN  /\ ~new.err
            /\ writer = new.writer
            /\ given = WriterArgs(filename, dims[1], dims[2], options)

\* A caller that writes frames and closes; no signal arrives.
NextEncode ==
    \/ Write
    \/ WriterClose

SpecEncode == InitWriter /\ [][NextEncode]_vars

\* The machines the constructors run on.
Hosts ==
    [files : SUBSET {"video.mp4", "audio.mp3"}, programs : SUBSET {"ffmpeg", "ffprobe"},
     video : {"fails", "none", "some"}, other : {"fails", "none", "some"}]

\* NewVideo(filename) called by the caller; streams[0] of an empty list panics.
NewVideoCall ==
    /\ CanCall
    /\ \E filename \in VideoFiles :
        LET new == NewVideoStreams(host, filename)
        IN  /\ given' = [given EXCEPT !.file = filename]
            /\ IF new.err
               THEN /\ video' = NoVideo
                    /\ ret' = Return("NewVideo", FALSE, <<>>, <<>>, FALSE, FALSE)
                    /\ UNCHANGED prog
               ELSE IF new.streams = <<>>
               THEN /\ prog' = "panic"
                    /\ ret' = Return("NewVideo", FALSE, <<>>, <<>>, FALSE, FALSE)
                    /\ UNCHANGED video
               ELSE /\ video' = new.streams[1]
                    /\ ret' = Return("NewVideo", TRUE, <<>>, <<>>, FALSE, FALSE)
                    /\ UNCHANGED prog
    /\ calls' = Bump("New")
    /\ UNCHANGED <<vwatch, stdout, writer, wwatch, stdin, oneshot, sig, host, encoder, parsed, collect, camera>>

\* The Options a constructor's failure depends on: none, or a stream file.
StreamOptions ==
    {NilOptions, NoOptions}
    \cup { [NoOptions EXCEPT !.StreamFile = f] : f \in {"audio.mp3", "missing.mp3"} }

\* NewVideoWriter(filename, width, height, options) called by the caller.
NewVideoWriterCall ==
    /\ CanCall
    /\ \E filename \in {OutMp4, OutGif}, dims \in WriterDims, options \in StreamOptions :
        LET new == NewVideoWriter(host, filename, dims[1], dims[2], options)
        IN  /\ writer' = new.writer
            /\ given' = [WriterArgs(filename, dims[1], dims[2], options)
                            EXCEPT !.file = given.file]
            /\ ret' = Return("NewVideoWriter", ~new.err, <<>>, <<>>, FALSE, FALSE)
    /\ calls' = Bump("New")
    /\ UNCHANGED <<video, vwatch, stdout, wwatch, stdin, oneshot, prog, sig, host,
                   encoder, parsed, collect, camera>>

\* Before any constructor was called, on any machine.
InitConstruct ==
    /\ InitIdle
    /\ camera = NoCamera
    /\ host \in Hosts
    /\ video = NoVideo
    /\ writer = NoWriter
    /\ stdout = [len |-> 0, pos |-> 0]
    /\ given = WriterArgs(<<>>, 0, 0, NilOptions)

NextConstruct ==
    \/ NewVideoCall
    \/ NewVideoWriterCall

SpecConstruct == InitConstruct /\ [][NextConstruct]_vars

\* GetVideoFrame called with no Video constructed, on any machine.
InitFrame ==
    /\ InitIdle
    /\ camera = NoCamera
    /\ host \in Hosts
    /\ video = NoVideo
    /\ writer = NoWriter
    /\ stdout = [len |-> 0, pos |-> 0]
    /\ given = WriterArgs(<<>>, 0, 0, NilOptions)

NextFrame ==
    \/ GetVideoFrame
    \/ Signal
    \/ OneShotWatcher

SpecFrame == InitFrame /\ [][NextFrame]_vars

\* The probe and its parser, called on any output of the probe tool.
NextProbe ==
    \/ ffprobeCall
    \/ parseFFprobeCall

\* The device parser, called on any listing.
NextDevices ==
    \/ parseDevicesCall

\* The parsers are called next to one Video whose stream holds whole frames.
InitParse == InitVideo /\ stdout.len = NumFrames * FrameSize

SpecDevices == InitParse /\ [][NextDevices]_vars

SpecProbe == InitParse /\ [][NextProbe]_vars

\* A caller that iterates over a Video whose probed record holds any width
\* and height entries.
InitIterate ==
    /\ InitIdle
    /\ camera = NoCamera
    /\ host = Healthy
    /\ \E w \in MetadataValues(Width), h \in MetadataValues(Height) :
          video = addVideoData(NewVideo, [width |-> w, height |-> h])
    /\ \E len \in StreamLens : stdout = [len |-> len, pos |-> 0]
    /\ writer = NewVideoWriter(host, OutMp4, 1, 2, NilOptions).writer
    /\ given = WriterArgs(OutMp4, 1, 2, NilOptions)

NextIterate ==
    \/ Read
    \/ Close
    \/ SetFrameBuffer

SpecIterate == InitIterate /\ [][NextIterate]_vars

\* A collecting function runs; its loop runs in the calling goroutine, which
\* the scheduler keeps running.
NextCollect ==
    \/ CollectStart
    \/ CollectRead

SpecCollect == InitParse /\ [][NextCollect]_vars /\ WF_vars(CollectRead)

\* A caller that reads a Camera and closes it; Read's loop runs in the
\* calling goroutine, which the scheduler keeps running.
InitCamera ==
    /\ InitIdle
    /\ host = Healthy
    /\ video = NoVideo
    /\ stdout = [len |-> 0, pos |-> 0]
    /\ writer = NoWriter
    /\ given = WriterArgs(<<>>, 0, 0, NilOptions)
    /\ \E len \in CaptureLens : camera = NewCamera(len)

NextCamera ==
    \/ CameraRead
    \/ CameraReadLoop
    \/ CameraClose

SpecCamera == InitCamera /\ [][NextCamera]_vars /\ WF_vars(CameraReadLoop)

\* A caller that reads a Video sequentially and writes a VideoWriter.
NextPipelines ==
    \/ Read
    \/ Close
    \/ Write
    \/ WriterClose
    \/ Signal
    \/ VideoWatcherStop
    \/ VideoWatcherSignal
    \/ VideoWatcherClosePipe
    \/ VideoWatcherKill
    \/ VideoWatcherExit
    \/ WriterWatcherSignal
    \/ WriterWatcherClosePipe
    \/ WriterWatcherKill
    \/ WriterWatcherExit

SpecPipelines == Init /\ [][NextPipelines]_vars

TypeOK ==
    /\ prog \in {"running", "exited", "signalled", "blocked",
                "panic", "panic: send on closed channel"}
    /\ video.pipe \in {Nil, "open", "closed"}
    /\ video.cmd \in {Nil, "unstarted", "running", "waited", "killed"}
    /\ writer.pipe \in {Nil, "open", "closed"}
    /\ writer.cmd \in {Nil, "unstarted", "running", "waited", "killed"}
    /\ stdout.pos <= stdout.len

----------------------------------------------------------------------------
(* Properties. *)

\* The first FrameSize bytes of a buffer.
FirstFrame(buf) == SubSeq(buf, 1, Min(Len(buf), FrameSize))

\* n is the index of a frame of the file.
Valid(n) == n \in 0..(NumFrames - 1)

\* The sequential engine was started, no signal arrived and the caller has not
\* called Close.
Undisturbed == video.cmd \in {"running", "waited"} /\ sig = 0 /\ calls.Close = 0

\* C1 (as amended): until the first Read the Video has no pipe, no process
\* handle and no watcher goroutine, and its frame buffer is unallocated unless
\* a SetFrameBuffer or ReadFrame call came first; until the first Write the
\* VideoWriter has no pipe, no process handle and no watcher goroutine.
C1_LazyStart ==
    /\ calls.Read = 0 =>
          /\ video.pipe = Nil /\ video.cmd = Nil /\ vwatch = NoWatcher
          /\ video.framebuffer # <<>> => (calls.SetFrameBuffer > 0 \/ calls.Random > 0)
    /\ calls.Write = 0 =>
          writer.pipe = Nil /\ writer.cmd = Nil /\ wwatch = NoWatcher

\* C1 as claimed: until the first Read the frame buffer is unallocated as well.
C1_Original ==
    /\ calls.Read = 0 =>
          /\ video.pipe = Nil /\ video.cmd = Nil /\ vwatch = NoWatcher
          /\ video.framebuffer = <<>>
    /\ calls.Write = 0 =>
          writer.pipe = Nil /\ writer.cmd = Nil /\ wwatch = NoWatcher

\* The caller has closed both instances and set a frame buffer, and has not
\* read or written yet.
C1_Witness ==
    /\ calls.Read = 0 /\ calls.Write = 0
    /\ calls.Close > 0 /\ calls.WriterClose > 0 /\ calls.SetFrameBuffer > 0
    /\ video.framebuffer # <<>>

\* C2: when the engine emits exactly K whole frames, the k-th Read (k <= K)
\* returns true with the k-th frame at the start of the frame buffer, and
\* Read K+1 returns false with the pipe closed and the process waited on.
C2_SequentialFrames ==
    (ret.op = "Read" /\ Undisturbed /\ stdout.len % FrameSize = 0) =>
        /\ calls.Read <= stdout.len \div FrameSize =>
              ret.ok /\ FirstFrame(video.framebuffer) = Frame(calls.Read - 1)
        /\ calls.Read = stdout.len \div FrameSize + 1 =>
              ~ret.ok /\ video.pipe = "closed" /\ video.cmd = "waited"

\* C3: a Read that returns false leaves the pipe closed, and the frame buffer
\* always holds its initial zeros or one whole frame.
C3_NoPartialFrame ==
    /\ (ret.op = "Read" /\ ~ret.ok) => video.pipe # "open"
    /\ \/ video.framebuffer = Zeros(Len(video.framebuffer))
       \/ \E k \in 0..(NumFrames - 1) : FirstFrame(video.framebuffer) = Frame(k)

\* C4: a Read that returns true has taken exactly one frame from the pipe and
\* left it at offset 0 of the buffer, and a ReadFrame or GetVideoFrame of a
\* valid index whose engine ran to its end succeeds with that frame at offset
\* 0, whatever the length of the buffer.
C4_ExactFrame ==
    /\ (ret.op = "Read" /\ ret.ok /\ Undisturbed) =>
          /\ stdout.pos = calls.Read * FrameSize
          /\ FirstFrame(video.framebuffer) = Frame(calls.Read - 1)
    /\ (ret.op = "ReadFrame" /\ ret.started /\ ret.complete /\ Valid(ret.n[1])) =>
          ret.ok /\ FirstFrame(video.framebuffer) = Frame(ret.n[1])
    /\ (ret.op = "GetVideoFrame" /\ ret.started /\ ret.complete /\ Valid(ret.n[1])) =>
          ret.ok /\ FirstFrame(ret.frames[1]) = Frame(ret.n[1])

\* C5: once Close has taken effect on a Video or a VideoWriter, no step starts
\* a process or opens a pipe for it, every Read returns false and every Write
\* returns an error.
C5_ClosedIsTerminal ==
    [][ /\ video.cleanupClosed =>
              /\ video.cmd # "running" => video'.cmd # "running"
              /\ video.pipe # "open" => video'.pipe # "open"
              /\ calls'.Read > calls.Read => ~ret'.ok
        /\ calls.WriterClose > 0 =>
              /\ writer.cmd # "running" => writer'.cmd # "running"
              /\ writer.pipe # "open" => writer'.pipe # "open"
              /\ calls'.Write > calls.Write => ~ret'.ok ]_vars

\* C6: in every state a sequence of Read and Close calls reaches, Close neither
\* blocks nor panics on closeCleanupChan, and a second Close right after it
\* changes nothing.
C6_CloseIdempotent ==
    /\ prog \notin {"blocked", "panic: send on closed channel"}
    /\ Alive => /\ VideoClose(video).prog = "running"
                /\ VideoClose(VideoClose(video).video) = VideoClose(video)

\* The caller has called Close after the last Read had met the end of the
\* stream and closed the Video itself, and the watcher goroutine is gone.
C6_Witness ==
    /\ ret.op = "Close" /\ Alive
    /\ calls.Read = NumFrames + 1 /\ stdout.pos = stdout.len
    /\ video.cmd = "waited" /\ video.pipe = "closed"
    /\ vwatch.pc = "stopped"

\* C7: a random-access call with no index, or with an index that is not a
\* frame of the file, returns an error and starts no process.
C7_ValidatedFirst ==
    (/\ ret.op \in {"ReadFrame", "ReadFrames", "GetVideoFrame"}
     /\ Len(ret.n) = 0 \/ \E j \in 1..Len(ret.n) : ~Valid(ret.n[j]))
    => (~ret.ok /\ ~ret.started)

\* C8: ReadFrames with valid indices, its engine running to the end, returns
\* one frame per index and result[j] is frame n[j].
C8_CallerOrder ==
    (/\ ret.op = "ReadFrames" /\ ret.started /\ ret.complete
     /\ Len(ret.n) > 0 /\ \A j \in 1..Len(ret.n) : Valid(ret.n[j]))
    => /\ ret.ok
       /\ Len(ret.frames) = Len(ret.n)
       /\ \A j \in 1..Len(ret.n) : ret.frames[j] = Frame(ret.n[j])

\* What the next Video.Read would return and deliver, its lazy init succeeding.
ReadOutcome(v, out) ==
    LET i == IF v.cmd = Nil THEN VideoInit(v, TRUE, TRUE).video ELSE v
        r == ReadFull(i.pipe, i.framebuffer, Stream(out.len), out.pos)
    IN  [ok |-> ~r.err /\ ~r.panic, panic |-> r.panic,
         frame |-> IF r.err THEN <<>> ELSE r.buf]

\* C9: a ReadFrame or ReadFrames call leaves the sequential pipe, process
\* handle, lifecycle state and stream position as they were, and the next Read
\* returns and delivers what it would have without the call.
C9_Independent ==
    [][ (calls'.Random > calls.Random /\ ret'.op \in {"ReadFrame", "ReadFrames"}) =>
            /\ video'.pipe = video.pipe /\ video'.cmd = video.cmd
            /\ video'.cleanupClosed = video.cleanupClosed
            /\ video'.closeCleanupChan = video.closeCleanupChan
            /\ UNCHANGED <<stdout, vwatch, prog>>
            /\ ReadOutcome(video', stdout') = ReadOutcome(video, stdout) ]_vars

\* C10: when a watcher has ended the program with os.Exit, no instance is left
\* with an open pipe or a running engine process.
C10_AllTornDown ==
    prog = "exited" =>
        /\ video.pipe # "open" /\ video.cmd # "running"
        /\ writer.pipe # "open" /\ writer.cmd # "running"


----------------------------------------------------------------------------
(* The VideoWriter's options, frames and close. *)

\* The Options a NewVideoWriter call was given, a nil one read as empty.
GivenOptions == IF given.options = NilOptions THEN NoOptions ELSE given.options

\* The command line has the argument flag with the value val.
HasArg(flag, val) ==
    \E i \in 1..Len(encoder.args) :
        encoder.args[i].flag = flag /\ encoder.args[i].val = val

\* C11: with no bitrate, Quality 0 resolves to -crf 0 and Quality 1 to
\* -crf 51 for libx264, and to -qscale:v 1 and -qscale:v 31 for any other
\* codec.
C11_QualityMapping ==
    (encoder.args # <<>> /\ GivenOptions.Bitrate = 0) =>
        /\ (writer.codec = "libx264" /\ GivenOptions.Quality = 0) => HasArg("-crf", 0)
        /\ (writer.codec = "libx264" /\ GivenOptions.Quality = QualityUnit)
              => HasArg("-crf", 51)
        /\ (writer.codec # "libx264" /\ GivenOptions.Quality = 0)
              => HasArg("-qscale:v", 1)
        /\ (writer.codec # "libx264" /\ GivenOptions.Quality = QualityUnit)
              => HasArg("-qscale:v", 31)

\* The last four characters of a filename, in lower case.
Extension(name) ==
    IF Len(name) < 4 THEN <<>> ELSE ToLower(SubSeq(name, Len(name) - 3, Len(name)))

C13_AdvertisedFrameSize ==
    encoder.args # <<>> =>
        \E i \in 1..Len(encoder.args) :
            /\ encoder.args[i].flag = "-s"
            /\ encoder.args[i].val[1] * encoder.args[i].val[2] * 4
                 = writer.width * writer.height * 4

\* C14: Write returns nil only when its pipe writes cover the frame byte by
\* byte, each starting where the one before ended; a pipe write that fails
\* is the last one and makes Write fail; only the first Write starts an engine.
C14_WriteLoop ==
    ret.op = "Write" =>
        LET w == ret.frames
            len == ret.n[1]
        IN  /\ \A j \in 1..Len(w) :
                  /\ w[j].from = (IF j = 1 THEN 0 ELSE w[j - 1].from + w[j - 1].n)
                  /\ w[j].err => j = Len(w)
            /\ ret.ok => /\ \A j \in 1..Len(w) : ~w[j].err
                         /\ w # <<>> /\ w[Len(w)].from + w[Len(w)].n = len
            /\ (w # <<>> /\ w[Len(w)].err) => ~ret.ok
            /\ ret.started => calls.Write = 1

C14_Witness ==
    /\ ret.op = "Write" /\ ret.ok
    /\ Len(ret.frames) > 1
    /\ calls.Write = 2

\* C15: a Close that waited for an engine which exited with failure reports
\* an error to the caller.
C15_CloseReportsFailure ==
    (ret.op = "WriterClose" /\ encoder.exit = "failed") => ~ret.ok


----------------------------------------------------------------------------
(* Construction. *)

\* C16: NewVideo fails when the file does not exist, ffmpeg or ffprobe is
\* not installed, a probe fails or the file has no video stream;
\* NewVideoWriter fails when ffmpeg is not installed or a given stream file
\* does not exist; a failed constructor returns nil, and no constructor
\* leaves a process, a pipe or a signal watcher behind.
C16_ConstructionFailures ==
    /\ ret.op = "NewVideo" =>
          /\ ( \/ given.file \notin host.files
               \/ "ffmpeg" \notin host.programs
               \/ "ffprobe" \notin host.programs
               \/ host.video \in {"fails", "none"}
               \/ host.other = "fails" ) => (~ret.ok /\ video = NoVideo)
          /\ prog = "running"
    /\ ret.op = "NewVideoWriter" =>
          (( \/ "ffmpeg" \notin host.programs
             \/ /\ GivenOptions.StreamFile # ""
                /\ GivenOptions.StreamFile \notin host.files ) => (~ret.ok /\ writer = NoWriter))
    /\ vwatch = NoWatcher /\ wwatch = NoWatcher /\ oneshot = <<>>
    /\ encoder = NoEncoder
    /\ video # NoVideo => (video.pipe = Nil /\ video.cmd = Nil)
    /\ writer # NoWriter => (writer.pipe = Nil /\ writer.cmd = Nil)

C16_Witness ==
    /\ ret.op = "NewVideo" /\ ~ret.ok
    /\ host.video = "none" /\ given.file \in host.files
    /\ host.programs = {"ffmpeg", "ffprobe"}
    /\ writer # NoWriter


----------------------------------------------------------------------------
(* Probing. *)

\* What ffprobe returns, read as the list of mappings its callers index.
Mappings(out) == IF DOMAIN out = {} THEN <<>> ELSE <<out>>

\* The value a stream's record gives a key: that of the key's first entry.
RECURSIVE FirstValue(_, _)
FirstValue(record, key) ==
    IF record[1][1] = key THEN record[1][2] ELSE FirstValue(Tail(record), key)

RecordKeys(record) == { record[i][1] : i \in 1..Len(record) }

\* C17: ffprobe returns one mapping per stream of the requested type, in
\* the probe tool's order, each holding the keys and values of its own
\* stream's record; with no such stream it returns an empty list, no error.
C17_OneMappingPerStream ==
    (parsed.fn = "ffprobe" /\ ~parsed.err) =>
        LET streams == parsed.input
            list == Mappings(parsed.out)
        IN  /\ Len(list) = Len(streams)
            /\ \A i \in 1..Len(streams) :
                  /\ DOMAIN list[i] = RecordKeys(streams[i])
                  /\ \A key \in RecordKeys(streams[i]) :
                        list[i][key] = FirstValue(streams[i], key)

\* The value of a token: everything after its first '='.
TokenValue(token) == SubSeq(token, Index(token, "=", 1) + 1, Len(token))
TokenKey(token) == SubSeq(token, 1, Index(token, "=", 1) - 1)

\* C18: when a key occurs more than once in a probe text, the mapping
\* holds the value of its first occurrence.
C18_FirstOccurrenceWins ==
    parsed.fn = "parseFFprobe" =>
        LET tokens == Split(parsed.input, "|")
        IN  \A i \in 1..Len(tokens) :
              ( /\ Contains(tokens[i], "=")
                /\ \A j \in 1..(i - 1) :
                      Contains(tokens[j], "=") => TokenKey(tokens[j]) # TokenKey(tokens[i])
                /\ \E j \in (i + 1)..Len(tokens) :
                      Contains(tokens[j], "=") /\ TokenKey(tokens[j]) = TokenKey(tokens[i]) )
              => /\ TokenKey(tokens[i]) \in DOMAIN parsed.out
                 /\ parsed.out[TokenKey(tokens[i])] = TokenValue(tokens[i])


\* The quoted names of a listing from word number from on, in order, up to
\* the next audio header; names on an alternative-name line are not device
\* names.
RECURSIVE NamesUpToAudio(_, _, _)
NamesUpToAudio(words, from, alt) ==
    IF from > Len(words) THEN <<>>
    ELSE IF words[from].text = "DirectShow audio devices" THEN <<>>
    ELSE IF words[from] = LineBreak THEN NamesUpToAudio(words, from + 1, FALSE)
    ELSE IF words[from].text = "Alternative name" THEN NamesUpToAudio(words, from + 1, TRUE)
    ELSE IF words[from].q /\ ~alt
         THEN <<words[from].text>> \o NamesUpToAudio(words, from + 1, alt)
    ELSE NamesUpToAudio(words, from + 1, alt)

\* C19: parseDevices returns the quoted device names between the video
\* devices header and the following audio devices header, in order, and no
\* other name.
C19_VideoDevicesOnly ==
    parsed.fn = "parseDevices" =>
        LET vindex == IndexWord(parsed.input, "directshow video devices", 1)
        IN  /\ ~parsed.err
            /\ parsed.out = (IF vindex = 0 THEN <<>>
                             ELSE NamesUpToAudio(parsed.input, vindex, FALSE))


----------------------------------------------------------------------------
(* GetVideoFrame. *)

\* C20: GetVideoFrame fails, starts no decode process and leaves the
\* caller's buffer as it was when the file does not exist, the buffer is nil
\* or the buffer is shorter than width*height*4; when it returns nil the
\* buffer holds the whole n-th frame.
C20_FrameOrError ==
    ret.op = "GetVideoFrame" =>
        LET buffer == ret.frames[1]
        IN  /\ ( \/ given.file \notin host.files
                 \/ Len(buffer) = 0
                 \/ Len(buffer) < Width * Height * 4 )
               => (~ret.ok /\ ~ret.started /\ buffer = Zeros(Len(buffer)))
            /\ ret.ok => /\ Len(buffer) >= FrameSize
                         /\ ret.n[1] \in 0..(NumFrames - 1)
                         /\ FirstFrame(buffer) = Frame(ret.n[1])

C20_Witness ==
    /\ ret.op = "GetVideoFrame" /\ ret.ok
    /\ ret.n = <<NumFrames - 1>>
    /\ ret.frames[1] = Frame(NumFrames - 1)

----------------------------------------------------------------------------
(* The encode invocation. *)

\* The least multiple of m that is at least d, for m > 1.
LeastMultiple(d, m) == CHOOSE k \in d..(d + m - 1) : k % m = 0

\* The command line has an argument flag.
HasFlag(flag) == \E i \in 1..Len(encoder.args) : encoder.args[i].flag = flag

\* C21: the lazy start of a writer with macro > 1 pads each dimension to the
\* least multiple of macro that is at least the original, and inserts -vf
\* scale=W:H with the padded size exactly when a dimension changed, GIF or
\* not; with macro <= 1 no dimension changes and no filter is inserted.
C21_MacroPadding ==
    encoder.args # <<>> =>
        LET m == writer.macro
            changed == writer.width # given.width \/ writer.height # given.height
        IN  /\ m > 1 =>
                  /\ writer.width = LeastMultiple(given.width, m)
                  /\ writer.height = LeastMultiple(given.height, m)
                  /\ writer.width < given.width + m /\ writer.height < given.height + m
                  /\ HasFlag("-vf") <=> changed
                  /\ HasFlag("-vf") => HasArg("-vf", <<writer.width, writer.height>>)
            /\ ~(m > 1) => (~changed /\ ~HasFlag("-vf"))

C21_Witness ==
    /\ encoder.args # <<>> /\ given.filename = OutGif
    /\ given.width = 2 /\ given.height = 3 /\ writer.macro = 2
    /\ writer.width = 2 /\ writer.height = 4 /\ HasArg("-vf", <<2, 4>>)
\* The filename ends in ".gif", whatever the case of its letters.
IsGif(name) ==
    /\ Len(name) >= 4
    /\ [i \in 1..4 |-> LowerChar(name[Len(name) - 4 + i])] = <<".", "g", "i", "f">>

\* The flags of the arguments from position from on, up to position upto.
Flags(from, upto) == [i \in 1..(upto - from + 1) |-> encoder.args[from + i - 1].flag]

\* C22: the command line built on the first Write starts with the raw-input
\* stage; the auxiliary input with its stream-copy maps and -shortest is
\* there exactly when a stream file was supplied and the output is no GIF,
\* before the output codec; after the codec comes exactly one of -b:v
\* (bitrate set), -crf (no bitrate, libx264) or -qscale:v; -loop and
\* -final_delay are there exactly for a GIF; the filename is last.
C22_CommandStructure ==
    encoder.args # <<>> =>
        LET a == encoder.args
            gif == IsGif(given.filename)
            aux == writer.streamfile # "" /\ ~gif
            codecAt == IF aux THEN 20 ELSE 9
            rate == IF writer.bitrate # 0 THEN "-b:v"
                    ELSE IF writer.codec = "libx264" THEN "-crf" ELSE "-qscale:v"
        IN  /\ Len(a) >= codecAt + 3
            /\ Flags(1, 8) = <<"-y", "-loglevel", "-f", "-vcodec", "-s", "-pix_fmt",
                                "-r", "-i">>
            /\ a[6].val = "rgba" /\ a[8].val = "-"
            /\ aux => /\ a[9] = Arg("-i", writer.streamfile)
                       /\ Flags(10, 19) = <<"-map", "-map", "-c:a", "-map", "-c:s", "-map",
                                             "-c:d", "-map", "-c:t", "-shortest">>
                       /\ <<a[11].val, a[13].val, a[15].val, a[17].val>>
                             = <<"1:a?", "1:s?", "1:d?", "1:t?">>
            /\ ~aux => \A i \in 9..(Len(a) - 1) : a[i].flag \notin {"-i", "-map", "-shortest"}
            /\ a[codecAt] = Arg("-vcodec", writer.codec)
            /\ a[codecAt + 2].flag = rate
            /\ \A i \in 1..(Len(a) - 1) :
                  a[i].flag \in {"-b:v", "-crf", "-qscale:v"} => i = codecAt + 2
            /\ gif <=> \E i \in (codecAt + 3)..(Len(a) - 1) : a[i].flag = "-loop"
            /\ gif <=> \E i \in (codecAt + 3)..(Len(a) - 1) : a[i].flag = "-final_delay"
            /\ a[Len(a)] = Arg(given.filename, <<>>)

C22_Witness ==
    /\ encoder.args # <<>> /\ Len(encoder.args) > 20
    /\ encoder.args[9] = Arg("-i", "audio.mp3") /\ given.filename = OutInner

\* A GIF output with a stream file: no auxiliary input, but the GIF arguments.
C22_WitnessGif ==
    /\ encoder.args # <<>> /\ given.filename = OutGif /\ writer.streamfile = "audio.mp3"
----------------------------------------------------------------------------
(* Failures and ends of the sequential read. *)

\* The first Read has returned, and its init failed: cmd is stored, but no
\* process was started.
OpenFailed == ret.op = "Read" /\ calls.Read = 1 /\ video.cmd = "unstarted"

\* What Read returns when the stream ends cleanly before its frame.
CleanEnd == ~ReadFull("open", Zeros(FrameSize), Stream(stdout.len), stdout.len).err

\* C23: a first Read that fails to open the pipeline (no stdout pipe, or the
\* engine does not start) returns to its caller something else than a Read at
\* the clean end of the stream does.
C23_OpenFailureReported == OpenFailed => ret.ok # CleanEnd
----------------------------------------------------------------------------
(* The probe text and its collection. *)

\* C24: the mapping parseFFprobe returns has a key for the text before the
\* first '=' of each token that holds one, with the whole rest of the key's
\* first token as its value, further '=' included, and no other key.
C24_SplitOnFirstEquals ==
    parsed.fn = "parseFFprobe" =>
        LET tokens == Split(parsed.input, "|")
            entries == { i \in 1..Len(tokens) : Contains(tokens[i], "=") }
        IN  /\ DOMAIN parsed.out = { TokenKey(tokens[i]) : i \in entries }
            /\ \A i \in entries :
                  (\A j \in entries : j < i => TokenKey(tokens[j]) # TokenKey(tokens[i]))
                     => parsed.out[TokenKey(tokens[i])] = TokenValue(tokens[i])
\* C25: the loop that collects a tool's output always comes to its end,
\* whatever the length of the output and the results of the reads, and then
\* it has read the whole output.
C25_CollectionTerminates ==
    /\ [](collect.pc = "done" => collect.total = collect.len)
    /\ (collect.pc = "loop") ~> (collect.pc = "done")

----------------------------------------------------------------------------
(* The Camera. *)

\* The capture process has no byte left to emit, or the pipe is closed.
CaptureEnded == camera.stream.pos = camera.stream.len \/ camera.pipe = "closed"

\* C26: every Camera.Read returns; it returns true only with a whole frame
\* transferred by that call, and a Read that meets the end of the capture
\* output or a failing pipe before that returns false with the pipe closed.
C26_CameraReadEnds ==
    /\ (camera.pc = "loop") ~> (camera.pc = "idle")
    /\ []((ret.op = "CameraRead" /\ ret.ok) => ret.complete)
    /\ []((camera.pc = "loop" /\ CaptureEnded
            /\ camera.total < camera.width * camera.height * camera.depth)
            => <>(camera.pc = "idle" /\ ret.op = "CameraRead" /\ ~ret.ok
                   /\ camera.pipe = "closed"))
----------------------------------------------------------------------------
(* Watchers. *)

\* C27: a watcher that was woken by a signal and finds the command handle
\* stored but no process started (the lazy open has not started it, or failed
\* to) has closed whatever pipe exists, does not crash at its kill and goes on
\* to its exit.
C27_WatcherSurvivesLazyOpen ==
    [][ /\ (vwatch.pc = "kill" /\ vwatch'.pc # "kill" /\ video.cmd = "unstarted")
              => (video.pipe # "open" /\ vwatch'.pc = "exit" /\ prog' = "running")
        /\ (wwatch.pc = "kill" /\ wwatch'.pc # "kill" /\ writer.cmd = "unstarted")
              => (writer.pipe # "open" /\ wwatch'.pc = "exit" /\ prog' = "running") ]_vars
\* C28: the watcher of a Video is registered before the sequential engine
\* is started and stays registered for as long as the engine runs, also when
\* the first Read follows a Close.
C28_WatcherWhileRunning ==
    /\ video.cmd # Nil => vwatch # NoWatcher
    /\ video.cmd = "running" => vwatch.notify
\* C29: when a random-access call has returned, every one-shot process that
\* was started is waited on, its stdout pipe is closed and no goroutine is
\* left waiting for a signal on its behalf.
C29_RandomAccessReleased ==
    ret.op \in {"ReadFrame", "ReadFrames", "GetVideoFrame"} =>
        \A i \in 1..Len(oneshot) :
            /\ oneshot[i].cmd = "waited"
            /\ oneshot[i].pipe = "closed"
            /\ oneshot[i].pc # "recv"
----------------------------------------------------------------------------
(* Iteration. *)

\* C30: a Read that returns true has consumed at least one byte of the
\* engine's output, whatever width and height the probe gave, so that a
\* caller reading a finite output in a loop comes to a Read that returns false.
C30_ReadConsumes ==
    [][ (calls'.Read > calls.Read /\ ret'.ok) => stdout'.pos > stdout.pos ]_vars
====
